---- MODULE Spec2Model ----
(***************************************************************************)
(* local-robot-map: coordinate model (coords.rs), cell map (cell_map.rs),  *)
(* region queries (lib.rs), polygon maps (polygon_map.rs) and local maps   *)
(* (local_map.rs).                                                         *)
(*                                                                         *)
(* Numbers.  The crate computes on f64.  An f64 is modelled as a binary    *)
(* floating-point number with a significand of MantissaBits bits and a     *)
(* smallest quantum of 2^-FracBits, rounded to nearest, ties to even, as   *)
(* IEEE 754 does.  A number is held as the integer n that stands for       *)
(* n / Unit.  NaN, the infinities, overflow and the sign of zero are        *)
(* outside the model.                                                      *)
(***************************************************************************)
EXTENDS Integers, Sequences, FiniteSets, TLC

VARIABLES
    rw,        \* coords: the RealWorldLocation a conversion chain starts from
    iloc,      \* coords: the InternalLocation the chain has reached, or None
    out,       \* coords: the RealWorldLocation the chain ended in, or None
    nchanges,  \* coords: number of change_offset calls in the chain
    cellmap,   \* the CellMap: [cells, resolution, offset], or None before new
    call,      \* the operation called last, with its arguments
    ret,       \* what that operation returned
    polygonmap, \* the PolygonMap: [vertices, explored], or None
    localmap,  \* the LocalMap: [map, my_robot, other_robots], or None
    algorithm, \* partition: what get_partition_algorithm() of the map gives
    invoked,   \* partition: number of invocations of the algorithm so far
    written    \* history: per cell, the label set_location wrote last, or
               \* the label the cell started with; None where not recorded

vars == <<rw, iloc, out, nchanges, cellmap, call, ret, polygonmap, localmap,
          algorithm, invoked, written>>
coordVars == <<rw, iloc, out, nchanges>>
mapVars == <<cellmap, call, ret>>
ownerVars == <<polygonmap, localmap>>
partitionVars == <<algorithm, invoked>>

\* significand width of the modelled float (53 for an f64)
MantissaBits == 4
\* binary digits after the point of the finest representable quantum
FracBits == 2

Unit == 2^FracBits

Abs(n) == IF n < 0 THEN -n ELSE n

Sign(n) == IF n < 0 THEN -1 ELSE 1

RECURSIVE BitLen(_)
BitLen(n) == IF n = 0 THEN 0 ELSE 1 + BitLen(n \div 2)

\* a / b (a >= 0, b > 0) rounded to the nearest integer, ties to even
RoundHalfEven(a, b) ==
    LET q == a \div b
        r == a % b
    IN  IF 2 * r < b THEN q
        ELSE IF 2 * r > b THEN q + 1
        ELSE IF q % 2 = 0 THEN q ELSE q + 1

\* the float nearest to the exact quotient n / d (d > 0), in grid units
RoundQ(n, d) ==
    LET a    == Abs(n)
        len  == BitLen(a \div d)
        ulp  == IF len > MantissaBits THEN 2^(len - MantissaBits) ELSE 1
    IN  Sign(n) * ulp * RoundHalfEven(a, d * ulp)

Representable(n) == RoundQ(n, 1) = n

fadd(a, b) == RoundQ(a + b, 1)
fsub(a, b) == RoundQ(a - b, 1)
fmul(a, b) == RoundQ(a * b, Unit)
fdiv(a, b) == RoundQ(Sign(b) * a * Unit, Abs(b))
fabs(a) == Abs(a)
fmin(a, b) == IF b < a THEN b ELSE a
ffloor(a) == (a \div Unit) * Unit

\* f64 of an index (usize::to_f64)
to_f64(i) == RoundQ(i * Unit, 1)

\* an absent value (Option::None, or a variable not yet assigned)
None == [tag |-> "None"]

\* num::ToPrimitive::to_usize on an f64, as a sequence of at most one element:
\* the value truncated towards zero when that lies in the range of usize,
\* nothing otherwise
to_usize(a) == IF a > -Unit THEN <<Sign(a) * (Abs(a) \div Unit)>> ELSE <<>>

(***************************************************************************)
(* coords.rs                                                               *)
(***************************************************************************)
Coords_new(x, y, z) == [x |-> x, y |-> y, z |-> z]

distance_x(self, other) == fabs(fsub(other.x, self.x))
distance_y(self, other) == fabs(fsub(other.y, self.y))
distance_z(self, other) == fabs(fsub(other.z, self.z))

Coords_add(self, rhs) ==
    Coords_new(fadd(self.x, rhs.x), fadd(self.y, rhs.y), fadd(self.z, rhs.z))

Coords_sub(self, rhs) ==
    Coords_new(fsub(self.x, rhs.x), fsub(self.y, rhs.y), fsub(self.z, rhs.z))

\* a RealWorldLocation is its Coords
RealWorldLocation_new(location) == location

InternalLocation_new(location, offset) ==
    [location |-> location, offset |-> offset]

into_internal(self, offset) ==
    InternalLocation_new(Coords_sub(RealWorldLocation_new(self), offset), offset)

into_real_world(self) ==
    RealWorldLocation_new(Coords_add(self.location, self.offset))

change_offset(self, offset) == into_internal(into_real_world(self), offset)

AxisResolution_new(x, y, z) == [x |-> x, y |-> y, z |-> z]

uniform(resolution) == AxisResolution_new(resolution, resolution, resolution)

(***************************************************************************)
(* lib.rs                                                                  *)
(***************************************************************************)
MapState ==
    {"OutOfMap", "OtherRobot", "MyRobot", "Explored", "Unexplored", "Frontier",
     "Assigned"}

LocationType == MapState

\* LocationError has the one variant OutOfMap
LocationError == {"OutOfMap"}

\* Result values; an .expect() on an Err or a None ends the call in a panic
Ok(v) == [tag |-> "Ok", v |-> v]
Err(e) == [tag |-> "Err", e |-> e]
Panic == [tag |-> "panic"]

(***************************************************************************)
(* The conversions with a resolution, as cell_map.rs calls them:           *)
(* into_internal(offset, resolution) returning a Result,                   *)
(* InternalLocation::new(location, offset, resolution) returning a Result, *)
(* into_real_world() undoing both.  Their bodies are those of the spec,    *)
(* sections 3 and 4.1 (scale x and y, never z) and 4.2 (a negative index   *)
(* is OutOfMap).                                                           *)
(***************************************************************************)
InternalLocation_new_res(location, offset, resolution) ==
    IF location.x < 0 \/ location.y < 0
    THEN Err("OutOfMap")
    ELSE Ok([location |-> location, offset |-> offset,
             resolution |-> resolution])

\* into_internal scaling z by the resolution as well
into_internal_res_scaled_z(self, offset, resolution) ==
    InternalLocation_new_res(
        Coords_new(fmul(fsub(self.x, offset.x), resolution.x),
                   fmul(fsub(self.y, offset.y), resolution.y),
                   fmul(fsub(self.z, offset.z), resolution.z)),
        offset, resolution)

into_internal_res(self, offset, resolution) ==
    InternalLocation_new_res(
        Coords_new(fmul(fsub(self.x, offset.x), resolution.x),
                   fmul(fsub(self.y, offset.y), resolution.y),
                   fsub(self.z, offset.z)),
        offset, resolution)

into_real_world_res(self) ==
    RealWorldLocation_new(
        Coords_new(fadd(fdiv(self.location.x, self.resolution.x), self.offset.x),
                   fadd(fdiv(self.location.y, self.resolution.y), self.offset.y),
                   fadd(self.location.z, self.offset.z)))

(***************************************************************************)
(* cell_map.rs                                                             *)
(***************************************************************************)
\* ndarray::Array2 of the given shape: elems[<<row, col>>]
Indices(nrows, ncols) == (0 .. nrows - 1) \X (0 .. ncols - 1)

from_elem(nrows, ncols, elem) ==
    [nrows |-> nrows, ncols |-> ncols,
     elems |-> [idx \in Indices(nrows, ncols) |-> elem]]

\* the vector holds the rows one after the other
from_shape_vec(nrows, ncols, vec) ==
    [nrows |-> nrows, ncols |-> ncols,
     elems |-> [idx \in Indices(nrows, ncols) |-> vec[idx[1] * ncols + idx[2] + 1]]]

\* the elements with their indices in logical (row-major) order
indexed_iter(cells) ==
    [k \in 1 .. cells.nrows * cells.ncols |->
        LET idx == <<(k - 1) \div cells.ncols, (k - 1) % cells.ncols>>
        IN  [row |-> idx[1], col |-> idx[2], e |-> cells.elems[idx]]]

\* CellMap::new taking the first corner as the offset
CellMap_new_offset_first(point1, point2, resolution) ==
    LET columns == fmul(distance_x(point1, point2), resolution.x)
        rows    == fmul(distance_y(point1, point2), resolution.y)
    IN  [cells |-> from_elem(to_usize(rows)[1], to_usize(columns)[1],
                             "Unexplored"),
         resolution |-> resolution,
         offset |-> point1]

\* CellMap::new rounding a fractional number of cells up
CellMap_new_round_up(point1, point2, resolution) ==
    LET columns == fmul(distance_x(point1, point2), resolution.x)
        rows    == fmul(distance_y(point1, point2), resolution.y)
    IN  [cells |-> from_elem(to_usize(rows + Unit - 1)[1],
                             to_usize(columns + Unit - 1)[1], "Unexplored"),
         resolution |-> resolution,
         offset |-> Coords_new(fmin(point1.x, point2.x),
                               fmin(point1.y, point2.y),
                               fmin(point1.z, point2.z))]

\* CellMap::new filling the grid with OutOfMap
CellMap_new_out_of_map(point1, point2, resolution) ==
    LET columns == fmul(distance_x(point1, point2), resolution.x)
        rows    == fmul(distance_y(point1, point2), resolution.y)
    IN  [cells |-> from_elem(to_usize(rows)[1], to_usize(columns)[1],
                             "OutOfMap"),
         resolution |-> resolution,
         offset |-> Coords_new(fmin(point1.x, point2.x),
                               fmin(point1.y, point2.y),
                               fmin(point1.z, point2.z))]

CellMap_new(point1, point2, resolution) ==
    LET columns == fmul(distance_x(point1, point2), resolution.x)
        rows    == fmul(distance_y(point1, point2), resolution.y)
        offset  == Coords_new(fmin(point1.x, point2.x),
                              fmin(point1.y, point2.y),
                              fmin(point1.z, point2.z))
    IN  IF to_usize(rows) = <<>> \/ to_usize(columns) = <<>>
        THEN Panic
        ELSE [cells |-> from_elem(to_usize(rows)[1], to_usize(columns)[1],
                                  "Unexplored"),
              resolution |-> resolution,
              offset |-> offset]

from_raster(cells, resolution, offset) ==
    [cells |-> cells, resolution |-> resolution, offset |-> offset]

ncols(self) == self.cells.ncols
nrows(self) == self.cells.nrows
width(self) == ncols(self)
height(self) == nrows(self)

\* location_to_map_index returning the index column first
location_to_map_index_col_first(self, location) ==
    LET coord == into_internal_res(location, self.offset, self.resolution)
    IN  IF coord.tag = "Err" THEN Err(coord.e)
        ELSE
          LET col == to_usize(ffloor(coord.v.location.x))
              row == to_usize(ffloor(coord.v.location.y))
          IN  IF col = <<>> \/ row = <<>> THEN Panic
              ELSE IF col[1] >= width(self) \/ row[1] >= height(self)
                   THEN Err("OutOfMap")
                   ELSE Ok(<<col[1], row[1]>>)

\* location_to_map_index clamping an index past the last row or column
location_to_map_index_clamped(self, location) ==
    LET coord == into_internal_res(location, self.offset, self.resolution)
    IN  IF coord.tag = "Err" THEN Err(coord.e)
        ELSE
          LET col == to_usize(ffloor(coord.v.location.x))
              row == to_usize(ffloor(coord.v.location.y))
          IN  IF col = <<>> \/ row = <<>> THEN Panic
              ELSE Ok(<<IF row[1] >= height(self) THEN height(self) - 1 ELSE row[1],
                        IF col[1] >= width(self) THEN width(self) - 1 ELSE col[1]>>)

location_to_map_index(self, location) ==
    LET coord == into_internal_res(location, self.offset, self.resolution)
    IN  IF coord.tag = "Err" THEN Err(coord.e)
        ELSE
          LET col == to_usize(ffloor(coord.v.location.x))
              row == to_usize(ffloor(coord.v.location.y))
          IN  IF col = <<>> \/ row = <<>> THEN Panic
              ELSE IF col[1] >= width(self) \/ row[1] >= height(self)
                   THEN Err("OutOfMap")
                   ELSE Ok(<<row[1], col[1]>>)

\* Cell::new reporting the centre of the cell
Cell_new_centre(location, value) ==
    [location |-> into_real_world_res(
                      [location EXCEPT !.location.x = fadd(@, Unit \div 2),
                                       !.location.y = fadd(@, Unit \div 2)]),
     value |-> value]

Cell_new(location, value) ==
    [location |-> into_real_world_res(location), value |-> value]

\* get_map_region scanning the grid column by column
get_map_region_column_major(self, filter) ==
    LET iter == [k \in 1 .. nrows(self) * ncols(self) |->
                    LET idx == <<(k - 1) % nrows(self), (k - 1) \div nrows(self)>>
                    IN  [row |-> idx[1], col |-> idx[2], e |-> self.cells.elems[idx]]]
        hits == SelectSeq(iter, LAMBDA c : c.e \in filter)
    IN  [k \in 1 .. Len(hits) |->
            Cell_new(
                InternalLocation_new_res(
                    Coords_new(to_f64(hits[k].col), to_f64(hits[k].row), 0),
                    self.offset, self.resolution).v,
                hits[k].e)]

\* filter is the set of labels the predicate accepts
get_map_region(self, filter) ==
    LET hits == SelectSeq(indexed_iter(self.cells), LAMBDA c : c.e \in filter)
    IN  [k \in 1 .. Len(hits) |->
            Cell_new(
                InternalLocation_new_res(
                    Coords_new(to_f64(hits[k].col), to_f64(hits[k].row), 0),
                    self.offset, self.resolution).v,
                hits[k].e)]

\* get_map_state returning the cells of every other label
get_map_state_others(self, state) == get_map_region(self, MapState \ {state})

\* get_map_state taking MyRobot and OtherRobot for one label
get_map_state_robots_merged(self, state) ==
    get_map_region(self, IF state \in {"MyRobot", "OtherRobot"}
                         THEN {"MyRobot", "OtherRobot"} ELSE {state})

get_map_state(self, state) == get_map_region(self, {state})

get_location(self, coord) ==
    LET index == location_to_map_index(self, coord)
    IN  IF index.tag = "Ok" THEN Ok(self.cells.elems[index.v]) ELSE index

\* set_location writing the whole row of the cell
set_location_row(self, coord, value) ==
    LET index == location_to_map_index(self, coord)
    IN  IF index.tag = "Ok"
        THEN [self EXCEPT !.cells.elems =
                 [idx \in DOMAIN @ |-> IF idx[1] = index.v[1] THEN value ELSE @[idx]]]
        ELSE self

\* set_location writing the first cell when the location is out of the map
set_location_on_error(self, coord, value) ==
    LET index == location_to_map_index(self, coord)
    IN  IF index.tag = "Ok"
        THEN [self EXCEPT !.cells.elems[index.v] = value]
        ELSE [self EXCEPT !.cells.elems[<<0, 0>>] = value]

\* set_location writing only to a cell that is still Unexplored
set_location_unexplored_only(self, coord, value) ==
    LET index == location_to_map_index(self, coord)
    IN  IF index.tag = "Ok" /\ self.cells.elems[index.v] = "Unexplored"
        THEN [self EXCEPT !.cells.elems[index.v] = value]
        ELSE self

\* the map after the call; the call returns set_location_ret
set_location(self, coord, value) ==
    LET index == location_to_map_index(self, coord)
    IN  IF index.tag = "Ok"
        THEN [self EXCEPT !.cells.elems[index.v] = value]
        ELSE self

set_location_ret(self, coord, value) ==
    LET index == location_to_map_index(self, coord)
    IN  IF index.tag = "Ok" THEN Ok("unit") ELSE index

(***************************************************************************)
(* Conversion chains: p.into_internal(o1).change_offset(o2)...             *)
(* .into_real_world()                                                      *)
(***************************************************************************)
\* longest chain of change_offset calls
MaxChanges == 2

\* coordinate values of the chains: -2.0, -1.0, 0.0, 1.0 and the largest
\* float below 2^(MantissaBits - FracBits), whose significand uses every bit
CoordVals == {-(2^(MantissaBits - 1)), -Unit, 0, Unit, 2^MantissaBits - 1}

Points ==
    {Coords_new(x, y, z) : x \in CoordVals, y \in {0, Unit}, z \in {-Unit, 0}}

Offsets ==
    {Coords_new(x, y, z) : x \in CoordVals, y \in {-Unit, 0}, z \in {-Unit}}

NoCall == [op |-> "none"]

InitCoords ==
    /\ rw \in Points
    /\ iloc = None
    /\ out = None
    /\ nchanges = 0
    /\ cellmap = None
    /\ call = NoCall
    /\ ret = None
    /\ polygonmap = None
    /\ localmap = None
    /\ algorithm = None
    /\ invoked = 0
    /\ written = None

IntoInternal(offset) ==
    /\ iloc = None
    /\ iloc' = into_internal(rw, offset)
    /\ UNCHANGED <<rw, out, nchanges, mapVars, ownerVars, partitionVars, written>>

ChangeOffset(offset) ==
    /\ iloc # None
    /\ out = None
    /\ nchanges < MaxChanges
    /\ iloc' = change_offset(iloc, offset)
    /\ nchanges' = nchanges + 1
    /\ UNCHANGED <<rw, out, mapVars, ownerVars, partitionVars, written>>

IntoRealWorld ==
    /\ iloc # None
    /\ out = None
    /\ out' = into_real_world(iloc)
    /\ UNCHANGED <<rw, iloc, nchanges, mapVars, ownerVars, partitionVars, written>>

NextCoords ==
    \/ \E offset \in Offsets : IntoInternal(offset)
    \/ \E offset \in Offsets : ChangeOffset(offset)
    \/ IntoRealWorld

SpecCoords == InitCoords /\ [][NextCoords]_vars

(***************************************************************************)
(* CellMap::new on pairs of corners                                        *)
(***************************************************************************)
\* 0.25 as a float
Quarter == Unit \div 4

\* the RealWorldLocation (x/4, y/4, z/4)
from_xyz(x, y, z) == Coords_new(x * Quarter, y * Quarter, z * Quarter)

\* corners with x in {-1, 0, 0.5, 1.5, 3.75}, y in {-1, 0, 1}, z in {-1, 0}
Corners == {from_xyz(x, y, z) : x \in {-4, 0, 2, 6, 15}, y \in {-4, 0, 4}, z \in {-4, 0}}

\* uniform(1.0), uniform(2.0) and 3 cells per meter on x, 0.5 on y
Resolutions ==
    {uniform(Unit), uniform(2 * Unit), AxisResolution_new(3 * Unit, Unit \div 2, 0)}

InitNew ==
    /\ rw = None
    /\ iloc = None
    /\ out = None
    /\ nchanges = 0
    /\ cellmap = None
    /\ \E point1 \in Corners, point2 \in Corners, resolution \in Resolutions :
          call = [op |-> "new", point1 |-> point1, point2 |-> point2,
                  resolution |-> resolution]
    /\ ret = None
    /\ polygonmap = None
    /\ localmap = None
    /\ algorithm = None
    /\ invoked = 0
    /\ written = None

New ==
    /\ call.op = "new"
    /\ cellmap = None
    /\ ret = None
    /\ LET map == CellMap_new(call.point1, call.point2, call.resolution)
       IN  IF map = Panic
           THEN cellmap' = cellmap /\ ret' = Panic
           ELSE cellmap' = map /\ ret' = Ok("CellMap")
    /\ UNCHANGED <<coordVars, call, ownerVars, partitionVars, written>>

NextNew == New

SpecNew == InitNew /\ [][NextNew]_vars

Min(a, b) == IF a <= b THEN a ELSE b

NewReturned == call.op = "new" /\ ret.tag = "Ok"

\* C3: CellMap::new(corner1, corner2, resolution) sets the offset to the
\* componentwise minimum of the two corners on x, y and z, and new(c1, c2, r)
\* and new(c2, c1, r) are equal grids.
C3_OffsetIsMin ==
    NewReturned =>
        /\ cellmap.offset.x = Min(call.point1.x, call.point2.x)
        /\ cellmap.offset.y = Min(call.point1.y, call.point2.y)
        /\ cellmap.offset.z = Min(call.point1.z, call.point2.z)
        /\ cellmap = CellMap_new(call.point2, call.point1, call.resolution)

\* a grid whose minimum corner is neither of the two corners given
C3_Witness ==
    /\ NewReturned
    /\ call.point2.x < call.point1.x
    /\ call.point1.y < call.point2.y
    /\ call.point2.z < call.point1.z
    /\ width(cellmap) > 0
    /\ height(cellmap) > 0

\* the f64 products CellMap::new truncates
ColumnsOf(c) == fmul(fabs(fsub(c.point1.x, c.point2.x)), c.resolution.x)
RowsOf(c) == fmul(fabs(fsub(c.point1.y, c.point2.y)), c.resolution.y)

\* C4: the grid of CellMap::new has floor(|corner1.x - corner2.x| *
\* resolution.x) columns and floor(|corner1.y - corner2.y| * resolution.y)
\* rows, a fractional remainder being dropped; corners (0,0,0), (1.5,1,0) at
\* resolution 1 give width 1.
C4_DimensionsTruncated ==
    NewReturned =>
        /\ width(cellmap) * Unit <= ColumnsOf(call)
        /\ ColumnsOf(call) < (width(cellmap) + 1) * Unit
        /\ height(cellmap) * Unit <= RowsOf(call)
        /\ RowsOf(call) < (height(cellmap) + 1) * Unit
        /\ (/\ call.point1 = from_xyz(0, 0, 0)
            /\ call.point2 = from_xyz(6, 4, 0)
            /\ call.resolution = uniform(Unit))
           => (width(cellmap) = 1 /\ height(cellmap) = 1)

\* the grid of corners (0,0,0), (1.5,1,0) at resolution 1
C4_Witness ==
    /\ NewReturned
    /\ call.point1 = from_xyz(0, 0, 0)
    /\ call.point2 = from_xyz(6, 4, 0)
    /\ call.resolution = uniform(Unit)
    /\ ColumnsOf(call) % Unit # 0

\* C5: every cell of a grid returned by CellMap::new is Unexplored.
C5_AllUnexplored ==
    NewReturned =>
        /\ DOMAIN cellmap.cells.elems = Indices(height(cellmap), width(cellmap))
        /\ \A idx \in Indices(height(cellmap), width(cellmap)) :
              cellmap.cells.elems[idx] = "Unexplored"

\* a grid of several rows and columns
C5_Witness == NewReturned /\ width(cellmap) >= 2 /\ height(cellmap) >= 2

(***************************************************************************)
(* Location access and region queries on a constructed CellMap             *)
(***************************************************************************)
\* tests::make_map: the 5 x 3 seed grid at offset (0, 0, 0), resolution 1
make_map ==
    from_raster(
        from_shape_vec(5, 3,
            <<"OutOfMap",   "OtherRobot", "MyRobot",
              "Frontier",   "Unexplored", "Explored",
              "Assigned",   "OutOfMap",   "OtherRobot",
              "MyRobot",    "Unexplored", "Assigned",
              "Unexplored", "Explored",   "Frontier">>),
        uniform(Unit),
        Coords_new(0, 0, 0))

\* a grid with a negative offset and an uneven resolution: corners (1, 1, 1)
\* and (-1, -1, -1), 2 cells per meter on x and 3 on y: 4 columns, 6 rows
uneven_map ==
    CellMap_new(from_xyz(4, 4, 4), from_xyz(-4, -4, -4),
                AxisResolution_new(2 * Unit, 3 * Unit, Unit))

InitMaps == {make_map, uneven_map}

\* locations inside, on the far edges of, and below the two grids
Locations ==
    {from_xyz(2, 0, 0), from_xyz(11, 6, 0), from_xyz(-4, -4, 0),
     from_xyz(12, 0, 0), from_xyz(2, 20, 0), from_xyz(-5, 0, 0),
     from_xyz(0, 0, -8), from_xyz(11, -1, 0), from_xyz(0, 0, 0),
     from_xyz(-4, -4, -4)}

\* labels written by set_location
SetValues == {"MyRobot", "OtherRobot", "Explored"}

\* predicates of get_map_region, each as the set of labels it accepts
Filters == {{"OutOfMap"}, {"MyRobot", "OtherRobot"}, MapState}

Init ==
    /\ rw = None
    /\ iloc = None
    /\ out = None
    /\ nchanges = 0
    /\ cellmap \in InitMaps
    /\ call = NoCall
    /\ ret = None
    /\ polygonmap = None
    /\ localmap = None
    /\ algorithm = None
    /\ invoked = 0
    /\ written = cellmap.cells.elems

LocationToMapIndex(location) ==
    /\ call' = [op |-> "location_to_map_index", coord |-> location]
    /\ ret' = location_to_map_index(cellmap, location)
    /\ UNCHANGED <<coordVars, cellmap, ownerVars, partitionVars, written>>

GetLocation(coord) ==
    /\ call' = [op |-> "get_location", coord |-> coord]
    /\ ret' = get_location(cellmap, coord)
    /\ UNCHANGED <<coordVars, cellmap, ownerVars, partitionVars, written>>

SetLocation(coord, value) ==
    /\ call' = [op |-> "set_location", coord |-> coord, value |-> value]
    /\ cellmap' = set_location(cellmap, coord, value)
    /\ ret' = set_location_ret(cellmap, coord, value)
    /\ written' = IF set_location_ret(cellmap, coord, value).tag = "Ok"
                  THEN [written EXCEPT
                           ![location_to_map_index(cellmap, coord).v] = value]
                  ELSE written
    /\ UNCHANGED <<coordVars, ownerVars, partitionVars>>

GetMapRegion(filter) ==
    /\ call' = [op |-> "get_map_region", filter |-> filter]
    /\ ret' = Ok(get_map_region(cellmap, filter))
    /\ UNCHANGED <<coordVars, cellmap, ownerVars, partitionVars, written>>

GetMapState(state) ==
    /\ call' = [op |-> "get_map_state", state |-> state]
    /\ ret' = Ok(get_map_state(cellmap, state))
    /\ UNCHANGED <<coordVars, cellmap, ownerVars, partitionVars, written>>

Next ==
    \/ \E location \in Locations : LocationToMapIndex(location)
    \/ \E coord \in Locations : GetLocation(coord)
    \/ \E coord \in Locations, value \in SetValues : SetLocation(coord, value)
    \/ \E filter \in Filters : GetMapRegion(filter)
    \/ \E state \in MapState : GetMapState(state)

Spec == Init /\ [][Next]_vars

\* the offset-relative, resolution-scaled coordinates of a location
ScaledX(map, p) == fmul(fsub(p.x, map.offset.x), map.resolution.x)
ScaledY(map, p) == fmul(fsub(p.y, map.offset.y), map.resolution.y)

\* floor of a float, as an integer
Floor(a) == a \div Unit

InGrid(map, p) ==
    /\ 0 <= Floor(ScaledX(map, p)) /\ Floor(ScaledX(map, p)) < width(map)
    /\ 0 <= Floor(ScaledY(map, p)) /\ Floor(ScaledY(map, p)) < height(map)

\* C6: for a location whose scaled coordinates (x', y') satisfy
\* 0 <= floor(x') < width and 0 <= floor(y') < height, location_to_map_index
\* returns Ok([floor(y'), floor(x')]) and get_location returns the label
\* stored at that index; get_location at the grid's offset returns the label
\* of cell (0, 0).
C6_IndexRowThenColumn ==
    /\ (call.op = "location_to_map_index" /\ InGrid(cellmap, call.coord))
         => ret = Ok(<<Floor(ScaledY(cellmap, call.coord)),
                       Floor(ScaledX(cellmap, call.coord))>>)
    /\ (call.op = "get_location" /\ InGrid(cellmap, call.coord))
         => ret = Ok(cellmap.cells.elems[<<Floor(ScaledY(cellmap, call.coord)),
                                           Floor(ScaledX(cellmap, call.coord))>>])
    /\ (call.op = "get_location" /\ call.coord = cellmap.offset)
         => ret = Ok(cellmap.cells.elems[<<0, 0>>])

\* location (2.75, 1.5, 0) on the seed grid: row 1, column 2
C6_Witness ==
    /\ call.op = "location_to_map_index"
    /\ call.coord = from_xyz(11, 6, 0)
    /\ ret = Ok(<<1, 2>>)
    /\ ScaledX(cellmap, call.coord) % Unit # 0

SetLocationStep == call'.op = "set_location"

\* C8: a successful set_location(p, v) changes exactly the one cell that
\* location_to_map_index(p) designates to v; every other cell, the offset and
\* the resolution are unchanged.
C8_SetLocationFrame ==
    [][(SetLocationStep /\ ret'.tag = "Ok") =>
        LET index == <<Floor(ScaledY(cellmap, call'.coord)),
                       Floor(ScaledX(cellmap, call'.coord))>>
        IN  /\ location_to_map_index(cellmap, call'.coord) = Ok(index)
            /\ cellmap'.cells.elems[index] = call'.value
            /\ \A idx \in Indices(height(cellmap), width(cellmap)) :
                  idx # index => cellmap'.cells.elems[idx] = cellmap.cells.elems[idx]
            /\ DOMAIN cellmap'.cells.elems = DOMAIN cellmap.cells.elems
            /\ height(cellmap') = height(cellmap)
            /\ width(cellmap') = width(cellmap)
            /\ cellmap'.offset = cellmap.offset
            /\ cellmap'.resolution = cellmap.resolution]_vars

\* the seed grid after a set_location that wrote Explored over OutOfMap in cell
\* (0, 0), its neighbours keeping their labels
C8_Witness ==
    /\ call.op = "set_location"
    /\ ret.tag = "Ok"
    /\ call.value = "Explored"
    /\ height(cellmap) = 5
    /\ cellmap.cells.elems[<<0, 0>>] = "Explored"
    /\ cellmap.cells.elems[<<0, 1>>] = "OtherRobot"
    /\ cellmap.cells.elems[<<1, 0>>] = "Frontier"

\* C9: when set_location(p, v) returns Err(OutOfMap), the grid (cells, offset,
\* resolution) is the grid before the call.
C9_SetLocationErrorFrame ==
    [][(SetLocationStep /\ ret'.tag = "Err") =>
        (ret' = Err("OutOfMap") /\ cellmap' = cellmap)]_vars

\* a set_location out of the map, on a grid an earlier set_location changed
C9_Witness ==
    /\ call.op = "set_location"
    /\ ret = Err("OutOfMap")
    /\ cellmap \notin InitMaps

\* index a comes before index b in row-major order
RowMajorBefore(a, b) == a[1] < b[1] \/ (a[1] = b[1] /\ a[2] < b[2])

\* the indices of the cells whose label the filter accepts
Matching(map, filter) ==
    {idx \in Indices(height(map), width(map)) : map.cells.elems[idx] \in filter}

\* the Cell of grid cell idx
CellAt(map, idx) ==
    Cell_new(InternalLocation_new_res(
                 Coords_new(to_f64(idx[2]), to_f64(idx[1]), 0),
                 map.offset, map.resolution).v,
             map.cells.elems[idx])

\* cells is the Cells of the matching grid cells, one each, in row-major order
IsRegion(map, filter, cells) ==
    /\ Len(cells) = Cardinality(Matching(map, filter))
    /\ \A k \in 1 .. Len(cells) :
          \E idx \in Matching(map, filter) :
             /\ cells[k] = CellAt(map, idx)
             /\ Cardinality({j \in Matching(map, filter) : RowMajorBefore(j, idx)})
                  = k - 1

\* C10: get_map_region(predicate) returns one Cell for every grid cell whose
\* label satisfies the predicate and no other, in row-major order; on the
\* 5 x 3 seed grid get_map_state(OutOfMap) returns the cells (col 0, row 0)
\* then (col 1, row 2).
C10_RegionRowMajor ==
    /\ call.op = "get_map_region" => IsRegion(cellmap, call.filter, ret.v)
    /\ call.op = "get_map_state" => IsRegion(cellmap, {call.state}, ret.v)
    /\ (call.op = "get_map_state" /\ call.state = "OutOfMap" /\ cellmap = make_map)
         => ret.v = <<[location |-> from_xyz(0, 0, 0), value |-> "OutOfMap"],
                      [location |-> from_xyz(4, 8, 0), value |-> "OutOfMap"]>>

\* get_map_state(OutOfMap) on the seed grid
C10_Witness ==
    /\ call.op = "get_map_state"
    /\ call.state = "OutOfMap"
    /\ cellmap = make_map
    /\ Len(ret.v) = 2

\* C1: for every point p and offset o, p.into_internal(o).into_real_world()
\* is exactly p.
C1_RoundTripExact == (out # None /\ nchanges = 0) => out = rw

\* C2: for every point p and offsets o1, ..., on,
\* p.into_internal(o1).change_offset(o2)...change_offset(on).into_real_world()
\* is exactly p.
C2_ReanchorExact == (out # None /\ nchanges >= 1) => out = rw

\* the k-th grid cell, in row-major order, whose label the filter accepts
NthMatching(map, filter, k) ==
    CHOOSE idx \in Matching(map, filter) :
        Cardinality({j \in Matching(map, filter) : RowMajorBefore(j, idx)}) = k - 1

\* the lower corner and the centre of grid cell idx = <<row, col>>
LowerCorner(map, idx) ==
    [x |-> fadd(map.offset.x, fdiv(to_f64(idx[2]), map.resolution.x)),
     y |-> fadd(map.offset.y, fdiv(to_f64(idx[1]), map.resolution.y))]

Centre(map, idx) ==
    [x |-> fadd(map.offset.x,
                fdiv(fadd(to_f64(idx[2]), Unit \div 2), map.resolution.x)),
     y |-> fadd(map.offset.y,
                fdiv(fadd(to_f64(idx[1]), Unit \div 2), map.resolution.y))]

C12_StateIsRegion ==
    /\ call.op = "get_map_state" => ret.v = get_map_region(cellmap, {call.state})
    /\ (call.op = "get_map_region" /\ Cardinality(call.filter) = 1)
         => \A L \in call.filter : ret.v = get_map_state(cellmap, L)

\* get_map_state(OtherRobot) on the seed grid after a robot was stamped
C12_Witness ==
    /\ call.op = "get_map_state"
    /\ call.state = "OtherRobot"
    /\ height(cellmap) = 5
    /\ Len(ret.v) = 3
    /\ get_map_region(cellmap, {"OtherRobot"}) = ret.v

(***************************************************************************)
(* polygon_map.rs                                                          *)
(*                                                                         *)
(* The geo and geo_rasterize crates are modelled by what they compute.     *)
(* geo_rasterize fills a polygon as GDAL does: a scan line through the     *)
(* centre of every row, then every pixel its outline touches.  Its inner   *)
(* arithmetic is taken as exact: PolygonLists holds polygons whose edges   *)
(* are horizontal, vertical or of slope 1 or -1, on which the f64 steps    *)
(* of the crate are exact.                                                 *)
(***************************************************************************)
Some(v) == [tag |-> "Some", v |-> v]

\* verify_polygon accepting two vertices
verify_polygon_two(vertices) ==
    IF Len(vertices) < 2 THEN Err("NotEnoughVertices") ELSE Ok(vertices)

verify_polygon(vertices) ==
    IF Len(vertices) < 3 THEN Err("NotEnoughVertices") ELSE Ok(vertices)

PolygonMap_new(vertices) ==
    LET verified == verify_polygon(vertices)
    IN  IF verified.tag = "Err" THEN verified
        ELSE Ok([vertices |-> verified.v, explored |-> None])

\* explored is None or Some(sequence of vertex sequences)
new_explored(vertices, explored) ==
    IF explored # None
       /\ \E k \in 1 .. Len(explored.v) : verify_polygon(explored.v[k]).tag = "Err"
    THEN Err("NotEnoughVertices")
    ELSE LET verified == verify_polygon(vertices)
         IN  IF verified.tag = "Err" THEN verified
             ELSE Ok([vertices |-> verified.v, explored |-> explored])

\* geo::Polygon::new: the exterior ring, closed by repeating its first
\* coordinate when the last one differs
Polygon_new(exterior) ==
    IF Len(exterior) > 0 /\ exterior[1] # exterior[Len(exterior)]
    THEN Append(exterior, exterior[1])
    ELSE exterior

\* bounding_rect taking the first coordinate for the minimum corner
bounding_rect_first(polygon) ==
    IF Len(polygon) = 0 THEN None
    ELSE LET xs == {polygon[k].x : k \in 1 .. Len(polygon)}
             ys == {polygon[k].y : k \in 1 .. Len(polygon)}
         IN  Some([min |-> polygon[1],
                   max |-> [x |-> CHOOSE m \in xs : \A v \in xs : v <= m,
                            y |-> CHOOSE m \in ys : \A v \in ys : v <= m]])

\* geo::BoundingRect: None for a polygon without coordinates
bounding_rect(polygon) ==
    IF Len(polygon) = 0 THEN None
    ELSE LET xs == {polygon[k].x : k \in 1 .. Len(polygon)}
             ys == {polygon[k].y : k \in 1 .. Len(polygon)}
         IN  Some([min |-> [x |-> CHOOSE m \in xs : \A v \in xs : m <= v,
                            y |-> CHOOSE m \in ys : \A v \in ys : m <= v],
                   max |-> [x |-> CHOOSE m \in xs : \A v \in xs : v <= m,
                            y |-> CHOOSE m \in ys : \A v \in ys : v <= m]])

\* the column floor(intersect + 0.5) at which the edge from a to b crosses the
\* centre line of a row, as <<column>>; <<>> when the edge does not cross it.
\* An edge covers the centre lines from its lower end up to, not including,
\* its upper end.
scanline_crossing(a, b, row) ==
    LET dy == row * Unit + Unit \div 2
        lo == IF a.y < b.y THEN a ELSE b
        hi == IF a.y < b.y THEN b ELSE a
    IN  IF a.y # b.y /\ lo.y <= dy /\ dy < hi.y
        THEN <<((dy - lo.y) * (hi.x - lo.x) + (lo.x + Unit \div 2) * (hi.y - lo.y))
                  \div ((hi.y - lo.y) * Unit)>>
        ELSE <<>>

\* the scan-line fill: the crossings of a row are sorted and taken in pairs,
\* each pair filling the columns from its first crossing up to, not including,
\* its second; a horizontal edge on the centre line, running right to left,
\* fills its own columns
filled(ring, row, col) ==
    LET edges == 1 .. Len(ring) - 1
        crossings == {k \in edges : scanline_crossing(ring[k], ring[k + 1], row) # <<>>}
        upto == {k \in crossings :
                    scanline_crossing(ring[k], ring[k + 1], row)[1] <= col}
    IN  \/ /\ Cardinality(upto) % 2 = 1
           /\ ~(Cardinality(crossings) % 2 = 1 /\ upto = crossings)
        \/ \E k \in edges :
              /\ ring[k].y = ring[k + 1].y
              /\ ring[k].y = row * Unit + Unit \div 2
              /\ ring[k].x > ring[k + 1].x
              /\ (ring[k + 1].x + Unit \div 2) \div Unit <= col
              /\ col <= (ring[k].x + Unit \div 2) \div Unit - 1

\* the outline: pixel (row, col) is burned by the segment from p to q when
\* the segment, taken left to right, has a point in it.  A segment inside one
\* column burns that column from its lowest to its highest row, one inside
\* one row burns that row from its first to its last column; a sloped one
\* burns the pixels [col, col + 1) x [row, row + 1) it has a point in, its
\* right end excluded.
touched(p, q, row, col) ==
    LET a == IF p.x > q.x THEN q ELSE p
        b == IF p.x > q.x THEN p ELSE q
        dx == b.x - a.x
        \* dx times the y of the segment at x
        y_at(x) == a.y * dx + (x - a.x) * (b.y - a.y)
        lo == IF a.x > col * Unit THEN a.x ELSE col * Unit
        hi == IF b.x < (col + 1) * Unit THEN b.x ELSE (col + 1) * Unit
    IN  IF a.x \div Unit = b.x \div Unit \/ 100 * dx < Unit
        THEN /\ col = b.x \div Unit
             /\ (IF a.y < b.y THEN a.y ELSE b.y) \div Unit <= row
             /\ row <= (IF a.y < b.y THEN b.y ELSE a.y) \div Unit
        ELSE IF a.y \div Unit = b.y \div Unit \/ 100 * Abs(a.y - b.y) < Unit
        THEN /\ row = a.y \div Unit
             /\ a.x \div Unit <= col
             /\ col <= b.x \div Unit
        ELSE /\ lo < hi
             /\ IF a.y < b.y
                THEN /\ y_at(lo) \div (dx * Unit) <= row
                     /\ row <= -((-y_at(hi)) \div (dx * Unit)) - 1
                ELSE /\ y_at(hi) \div (dx * Unit) <= row
                     /\ row <= y_at(lo) \div (dx * Unit)

\* geo_rasterize::BinaryRasterizer: rasterize a polygon, then finish()
rasterize(polygon, w, h) ==
    [nrows |-> h, ncols |-> w,
     elems |-> [idx \in Indices(h, w) |->
                   \/ filled(polygon, idx[1], idx[2])
                   \/ \E k \in 1 .. Len(polygon) - 1 :
                         touched(polygon[k], polygon[k + 1], idx[1], idx[2])]]

\* Ok([cells, offset]), or Panic where an expect() or the panic!() fails
rasterize_polygon(vertices, resolution) ==
    LET polygon == Polygon_new([k \in 1 .. Len(vertices) |->
                                   [x |-> vertices[k].x, y |-> vertices[k].y]])
        bbox == bounding_rect(polygon)
    IN  IF bbox = None THEN Panic
        ELSE
          LET offset == Coords_new(bbox.v.min.x, bbox.v.min.y, 0)
              w == fmul(fsub(bbox.v.max.x, bbox.v.min.x), resolution.x)
              h == fmul(fsub(bbox.v.max.y, bbox.v.min.y), resolution.y)
              internal == [k \in 1 .. Len(polygon) |->
                              into_internal_res(
                                  RealWorldLocation_new(
                                      Coords_new(polygon[k].x, polygon[k].y, 0)),
                                  offset, resolution)]
          IN  IF \E k \in 1 .. Len(polygon) : internal[k].tag = "Err" THEN Panic
              ELSE IF to_usize(w) = <<>> \/ to_usize(h) = <<>> THEN Panic
              ELSE Ok([cells |-> rasterize(
                                    [k \in 1 .. Len(polygon) |->
                                        [x |-> internal[k].v.location.x,
                                         y |-> internal[k].v.location.y]],
                                    to_usize(w)[1], to_usize(h)[1]),
                       offset |-> offset])

\* the labels of the raster, swapped
raster_label_swapped(e) == IF e THEN "OutOfMap" ELSE "Unexplored"

\* the label of a cell of the main raster
raster_label(e) == IF e THEN "Unexplored" ELSE "OutOfMap"

\* explored_locations keeping the locations out of the main grid
explored_locations_unfiltered(map, cells_explored, offset_explored, resolution) ==
    LET inside == SelectSeq(indexed_iter(cells_explored), LAMBDA c : c.e)
    IN  [k \in 1 .. Len(inside) |->
            into_real_world_res(
                InternalLocation_new_res(
                    Coords_new(to_f64(inside[k].col), to_f64(inside[k].row), 0),
                    offset_explored, resolution).v)]

\* the real-world locations of the inside cells of an explored raster that
\* get_location finds in the main grid
explored_locations(map, cells_explored, offset_explored, resolution) ==
    LET inside == SelectSeq(indexed_iter(cells_explored), LAMBDA c : c.e)
        locations ==
            [k \in 1 .. Len(inside) |->
                into_real_world_res(
                    InternalLocation_new_res(
                        Coords_new(to_f64(inside[k].col), to_f64(inside[k].row), 0),
                        offset_explored, resolution).v)]
    IN  SelectSeq(locations, LAMBDA location : get_location(map, location).tag = "Ok")

\* the loop of set_location leaving alone every cell that is OutOfMap
RECURSIVE set_locations_in_map_only(_, _, _)
set_locations_in_map_only(map, locations, value) ==
    IF Len(locations) = 0 THEN map
    ELSE IF set_location_ret(map, Head(locations), value).tag # "Ok" THEN Panic
    ELSE IF get_location(map, Head(locations)) = Ok("OutOfMap")
    THEN set_locations_in_map_only(map, Tail(locations), value)
    ELSE set_locations_in_map_only(set_location(map, Head(locations), value),
                                   Tail(locations), value)

\* set_location(loc, value).expect() for every loc, in order
RECURSIVE set_locations(_, _, _)
set_locations(map, locations, value) ==
    IF Len(locations) = 0 THEN map
    ELSE IF set_location_ret(map, Head(locations), value).tag # "Ok" THEN Panic
    ELSE set_locations(set_location(map, Head(locations), value),
                       Tail(locations), value)

\* the loop over the explored polygons
RECURSIVE set_explored(_, _, _)
set_explored(map, explored, resolution) ==
    IF Len(explored) = 0 THEN map
    ELSE LET sub == rasterize_polygon(Head(explored), resolution)
         IN  IF sub.tag = "panic" THEN Panic
             ELSE LET stamped ==
                          set_locations(
                              map,
                              explored_locations(map, sub.v.cells, sub.v.offset,
                                                 resolution),
                              "Explored")
                  IN  IF stamped = Panic THEN Panic
                      ELSE set_explored(stamped, Tail(explored), resolution)

\* the CellMap returned, or Panic
to_cell_map(self, resolution) ==
    LET main == rasterize_polygon(self.vertices, resolution)
    IN  IF main.tag = "panic" THEN Panic
        ELSE
          LET cells == [nrows |-> main.v.cells.nrows,
                        ncols |-> main.v.cells.ncols,
                        elems |-> [idx \in DOMAIN main.v.cells.elems |->
                                      raster_label(main.v.cells.elems[idx])]]
              map == from_raster(cells, resolution, main.v.offset)
          IN  IF self.explored = None THEN map
              ELSE set_explored(map, self.explored.v, resolution)

(***************************************************************************)
(* A PolygonMap is constructed, then converted to a CellMap                *)
(***************************************************************************)
\* the triangles of the tests
triangle_positive == <<from_xyz(0, 0, 0), from_xyz(16, 16, 0), from_xyz(32, 0, 0)>>
triangle_negative == <<from_xyz(0, -8, 0), from_xyz(-8, 0, 0), from_xyz(-16, -8, 0)>>
triangle_partly_negative == <<from_xyz(-8, 0, 0), from_xyz(0, 8, 0), from_xyz(8, 0, 0)>>

\* a rectangle 2.5 wide and 1.75 high, above the plane z = 0
rectangle == <<from_xyz(0, 0, 4), from_xyz(10, 0, 4), from_xyz(10, 7, 4),
               from_xyz(0, 7, 4)>>

\* polygons without an area: one point three times, three points on a
\* horizontal line, three points on a diagonal
point_polygon == <<from_xyz(4, 4, 0), from_xyz(4, 4, 0), from_xyz(4, 4, 0)>>
flat_polygon == <<from_xyz(0, 0, 0), from_xyz(4, 0, 0), from_xyz(12, 0, 0)>>
diagonal_polygon == <<from_xyz(0, 0, 0), from_xyz(4, 4, 0), from_xyz(8, 8, 0)>>

\* vertex lists too short for a polygon
ShortLists == {<<>>, <<from_xyz(0, 0, 0)>>, <<from_xyz(0, 0, 0), from_xyz(4, 4, 0)>>}

PolygonLists ==
    {triangle_positive, triangle_negative, triangle_partly_negative, rectangle,
     point_polygon, flat_polygon, diagonal_polygon}

VertexLists == PolygonLists \cup ShortLists

\* explored regions: a square inside the positive triangle, a rectangle
\* reaching past its right and upper edge, a square around the origin
square_inside == <<from_xyz(12, 4, 0), from_xyz(20, 4, 0), from_xyz(20, 8, 0),
                   from_xyz(12, 8, 0)>>
rectangle_across == <<from_xyz(24, 8, 0), from_xyz(40, 8, 0), from_xyz(40, 20, 0),
                      from_xyz(24, 20, 0)>>
square_origin == <<from_xyz(-8, -4, 0), from_xyz(4, -4, 0), from_xyz(4, 8, 0),
                   from_xyz(-8, 8, 0)>>

ExploredLists ==
    {None, Some(<<>>), Some(<<square_inside>>), Some(<<rectangle_across>>),
     Some(<<square_origin, square_inside>>),
     Some(<<square_inside, <<from_xyz(0, 0, 0), from_xyz(4, 4, 0)>>>>)}

\* uniform(1.0) and uniform(2.0)
PolygonResolutions == {uniform(Unit), uniform(2 * Unit)}

InitPolygon ==
    /\ rw = None
    /\ iloc = None
    /\ out = None
    /\ nchanges = 0
    /\ cellmap = None
    /\ call = NoCall
    /\ ret = None
    /\ polygonmap = None
    /\ localmap = None
    /\ algorithm = None
    /\ invoked = 0
    /\ written = None

PolygonNew(vertices) ==
    /\ call = NoCall
    /\ call' = [op |-> "PolygonMap::new", vertices |-> vertices]
    /\ ret' = PolygonMap_new(vertices)
    /\ polygonmap' = IF ret'.tag = "Ok" THEN ret'.v ELSE None
    /\ UNCHANGED <<coordVars, cellmap, localmap, partitionVars, written>>

PolygonNewExplored(vertices, explored) ==
    /\ call = NoCall
    /\ call' = [op |-> "PolygonMap::new_explored", vertices |-> vertices,
                explored |-> explored]
    /\ ret' = new_explored(vertices, explored)
    /\ polygonmap' = IF ret'.tag = "Ok" THEN ret'.v ELSE None
    /\ UNCHANGED <<coordVars, cellmap, localmap, partitionVars, written>>

\* to_cell_map takes the PolygonMap by value
ToCellMap(resolution) ==
    /\ polygonmap # None
    /\ call' = [op |-> "to_cell_map", self |-> polygonmap,
                resolution |-> resolution]
    /\ LET map == to_cell_map(polygonmap, resolution)
       IN  IF map = Panic
           THEN cellmap' = cellmap /\ ret' = Panic
           ELSE cellmap' = map /\ ret' = Ok("CellMap")
    /\ polygonmap' = None
    /\ UNCHANGED <<coordVars, localmap, partitionVars, written>>

NextPolygon ==
    \/ \E vertices \in VertexLists : PolygonNew(vertices)
    \/ \E vertices \in VertexLists, explored \in ExploredLists :
          PolygonNewExplored(vertices, explored)
    \/ \E resolution \in PolygonResolutions : ToCellMap(resolution)

SpecPolygon == InitPolygon /\ [][NextPolygon]_vars

\* a call of one of the two constructors
Constructed == call.op \in {"PolygonMap::new", "PolygonMap::new_explored"}

\* the main vertex sequence of the call, or one of its explored polygons, has
\* fewer than 3 vertices
ShortVertexList ==
    \/ Len(call.vertices) < 3
    \/ /\ call.op = "PolygonMap::new_explored"
       /\ call.explored # None
       /\ \E k \in 1 .. Len(call.explored.v) : Len(call.explored.v[k]) < 3

\* C13: PolygonMap::new and PolygonMap::new_explored return
\* Err(NotEnoughVertices) exactly when the main vertex sequence or any explored
\* sub-polygon has fewer than 3 vertices, and return Ok otherwise; they never
\* abort on a short vertex list.
C13_NotEnoughVertices ==
    Constructed =>
        /\ ret.tag \in {"Ok", "Err"}
        /\ ShortVertexList <=> (ret.tag = "Err" /\ ret.e = "NotEnoughVertices")
        /\ ~ShortVertexList =>
              /\ ret.tag = "Ok"
              /\ ret.v.vertices = call.vertices
              /\ ret.v.explored =
                    (IF call.op = "PolygonMap::new" THEN None ELSE call.explored)
              /\ polygonmap = ret.v

\* new_explored refusing a triangle because of an explored region of two vertices
C13_Witness ==
    /\ call.op = "PolygonMap::new_explored"
    /\ Len(call.vertices) = 3
    /\ call.explored # None
    /\ \E k \in 1 .. Len(call.explored.v) : Len(call.explored.v[k]) = 2
    /\ ret = Err("NotEnoughVertices")
    /\ polygonmap = None

\* the least and the greatest element of a set of numbers
SetMin(S) == CHOOSE m \in S : \A v \in S : m <= v
SetMax(S) == CHOOSE m \in S : \A v \in S : v <= m

\* the coordinates of a vertex sequence
XsOf(vertices) == {vertices[k].x : k \in 1 .. Len(vertices)}
YsOf(vertices) == {vertices[k].y : k \in 1 .. Len(vertices)}

\* C14: to_cell_map(resolution) returns a grid whose offset is the minimum
\* corner (min x, min y, z = 0) of the main polygon's axis-aligned bounding
\* box and whose dimensions are floor(bbox width * resolution.x) columns by
\* floor(bbox height * resolution.y) rows; the triangle (0, -2), (-2, 0),
\* (-4, -2) at resolution 2 gives 8 columns and 4 rows.
C14_BoundingBoxGrid ==
    call.op = "to_cell_map" =>
        /\ ret.tag = "Ok"
        /\ LET xs == XsOf(call.self.vertices)
               ys == YsOf(call.self.vertices)
           IN  /\ cellmap.offset = Coords_new(SetMin(xs), SetMin(ys), 0)
               /\ width(cellmap)
                    = Floor(fmul(fsub(SetMax(xs), SetMin(xs)), call.resolution.x))
               /\ height(cellmap)
                    = Floor(fmul(fsub(SetMax(ys), SetMin(ys)), call.resolution.y))
               /\ DOMAIN cellmap.cells.elems
                    = Indices(height(cellmap), width(cellmap))
               /\ cellmap.resolution = call.resolution
        /\ (call.self.vertices = triangle_negative
              /\ call.resolution = uniform(2 * Unit))
             => /\ width(cellmap) = 8
                /\ height(cellmap) = 4
                /\ cellmap.offset = from_xyz(-16, -8, 0)

\* the rectangle 2.5 wide and 1.75 high at z = 1, 2 cells per meter: 5 columns,
\* 3 rows, offset (0, 0, 0)
C14_Witness ==
    /\ call.op = "to_cell_map"
    /\ call.self.vertices = rectangle
    /\ call.resolution = uniform(2 * Unit)
    /\ ret.tag = "Ok"
    /\ width(cellmap) = 5
    /\ height(cellmap) = 3
    /\ cellmap.offset = from_xyz(0, 0, 0)

\* C15: to_cell_map on a polygon with no explored sub-regions labels a cell
\* Unexplored exactly when the cell is inside the polygon (the raster holds
\* true for it) and OutOfMap otherwise, and uses no other label; the triangle
\* (0,0,0), (4,4,0), (8,0,0) at resolution 1 yields the 8-column by 4-row
\* pattern of the test: row 0 all Unexplored, row 3 Unexplored only in
\* columns 3..5.
C15_UnexploredInside ==
    (call.op = "to_cell_map" /\ call.self.explored = None) =>
        /\ ret.tag = "Ok"
        /\ LET raster == rasterize_polygon(call.self.vertices, call.resolution)
           IN  /\ raster.tag = "Ok"
               /\ \A idx \in Indices(height(cellmap), width(cellmap)) :
                     /\ cellmap.cells.elems[idx] \in {"Unexplored", "OutOfMap"}
                     /\ cellmap.cells.elems[idx] = "Unexplored"
                          <=> raster.v.cells.elems[idx]
        /\ (call.self.vertices = triangle_positive /\ call.resolution = uniform(Unit))
             => cellmap.cells =
                  from_shape_vec(4, 8,
                      <<"Unexplored", "Unexplored", "Unexplored", "Unexplored",
                        "Unexplored", "Unexplored", "Unexplored", "Unexplored",
                        "OutOfMap",   "Unexplored", "Unexplored", "Unexplored",
                        "Unexplored", "Unexplored", "Unexplored", "Unexplored",
                        "OutOfMap",   "OutOfMap",   "Unexplored", "Unexplored",
                        "Unexplored", "Unexplored", "Unexplored", "OutOfMap",
                        "OutOfMap",   "OutOfMap",   "OutOfMap",   "Unexplored",
                        "Unexplored", "Unexplored", "OutOfMap",   "OutOfMap">>)

\* the triangle of the test, converted at resolution 1
C15_Witness ==
    /\ call.op = "to_cell_map"
    /\ call.self.explored = None
    /\ call.self.vertices = triangle_positive
    /\ call.resolution = uniform(Unit)
    /\ ret.tag = "Ok"
    /\ cellmap.cells.elems[<<3, 5>>] = "Unexplored"
    /\ cellmap.cells.elems[<<3, 6>>] = "OutOfMap"

\* the real-world locations of the inside cells of the raster of an explored
\* polygon
InsideLocations(polygon, resolution) ==
    LET sub == rasterize_polygon(polygon, resolution).v
    IN  {LowerCorner([offset |-> sub.offset, resolution |-> resolution], c) :
            c \in {d \in Indices(sub.cells.nrows, sub.cells.ncols) :
                      sub.cells.elems[d]}}

\* the cells of the main grid that hold the location of an inside cell of
\* some explored polygon
ExploredHits(map, explored, resolution) ==
    {idx \in Indices(height(map), width(map)) :
        \E k \in 1 .. Len(explored) :
            \E loc \in InsideLocations(explored[k], resolution) :
                /\ InGrid(map, loc)
                /\ idx = <<Floor(ScaledY(map, loc)), Floor(ScaledX(map, loc))>>}

\* C16: in to_cell_map, a main-grid cell becomes Explored only if the
\* real-world location of an inside cell of some explored sub-polygon's raster
\* falls within the main grid's bounds, and into that cell; inside cells of a
\* sub-polygon that fall outside the main grid are dropped without error or
\* abort, and every main-grid cell not hit keeps its Unexplored/OutOfMap label.
C16_ExploredWithinGrid ==
    (call.op = "to_cell_map" /\ call.self.explored # None) =>
        /\ ret.tag = "Ok"
        /\ LET main == rasterize_polygon(call.self.vertices, call.resolution).v
               hits == ExploredHits(cellmap, call.self.explored.v, call.resolution)
           IN  \A idx \in Indices(height(cellmap), width(cellmap)) :
                  cellmap.cells.elems[idx] =
                     IF idx \in hits THEN "Explored"
                     ELSE IF main.cells.elems[idx] THEN "Unexplored"
                     ELSE "OutOfMap"

\* the positive triangle with the explored rectangle (6, 2) .. (10, 5): its
\* cells from x = 8 on and from y = 4 on lie outside the 8 x 4 grid
C16_Witness ==
    /\ call.op = "to_cell_map"
    /\ call.self.vertices = triangle_positive
    /\ call.self.explored = Some(<<rectangle_across>>)
    /\ call.resolution = uniform(Unit)
    /\ ret.tag = "Ok"
    /\ cellmap.cells.elems[<<3, 7>>] = "Explored"
    /\ cellmap.cells.elems[<<2, 5>>] = "Unexplored"
    /\ cellmap.cells.elems[<<1, 0>>] = "OutOfMap"
    /\ \E loc \in InsideLocations(rectangle_across, call.resolution) :
          ~InGrid(cellmap, loc)

\* the vertices lie on one line, or in one point
Degenerate(vertices) ==
    \A i, j, k \in 1 .. Len(vertices) :
        (vertices[j].x - vertices[i].x) * (vertices[k].y - vertices[i].y)
          = (vertices[k].x - vertices[i].x) * (vertices[j].y - vertices[i].y)

\* C17: to_cell_map on a degenerate or otherwise malformed polygon (at least
\* 3 vertices but no usable bounding box or raster) reports an explicit error
\* value to the caller instead of aborting or returning a corrupted grid.
C17_MalformedIsError ==
    (call.op = "to_cell_map" /\ Degenerate(call.self.vertices)) => ret.tag = "Err"

(***************************************************************************)
(* local_map.rs                                                            *)
(***************************************************************************)
Robot_new(location, parameters) ==
    [location |-> location, parameters |-> parameters]

\* a placement that set_location refused with r: the error and the position
\* of the robot, the grid as it is
placement_failed(r, location, map) ==
    [ret |-> IF r.tag = "Err" THEN Err(<<r.e, location>>) ELSE Panic,
     map |-> map]

\* the loop over other_robots: [ret, map], ret being Ok or the Err the loop
\* returns with, map the grid as the loop left it
RECURSIVE stamp_other_robots(_, _)
stamp_other_robots(map, other_robots) ==
    IF Len(other_robots) = 0 THEN [ret |-> Ok("unit"), map |-> map]
    ELSE IF set_location_ret(map, Head(other_robots).location, "OtherRobot").tag = "Ok"
    THEN stamp_other_robots(
             set_location(map, Head(other_robots).location, "OtherRobot"),
             Tail(other_robots))
    ELSE placement_failed(
             set_location_ret(map, Head(other_robots).location, "OtherRobot"),
             Head(other_robots).location, map)

\* the end of new_noexpand, the loop having ended with others: Ok(Self {..})
\* around the grid, or the Err of the loop
new_noexpand_end(others, my_robot, other_robots) ==
    IF others.ret.tag = "Ok"
    THEN [ret |-> Ok([map |-> others.map, my_robot |-> my_robot,
                      other_robots |-> other_robots]),
          map |-> others.map]
    ELSE others

\* new_noexpand reporting my robot's position when another robot fails
new_noexpand_reports_my_robot(map, my_robot, other_robots) ==
    IF set_location_ret(map, my_robot.location, "MyRobot").tag # "Ok"
    THEN placement_failed(set_location_ret(map, my_robot.location, "MyRobot"),
                          my_robot.location, map)
    ELSE IF stamp_other_robots(set_location(map, my_robot.location, "MyRobot"),
                               other_robots).ret.tag = "Err"
    THEN [ret |-> Err(<<"OutOfMap", my_robot.location>>),
          map |-> stamp_other_robots(
                      set_location(map, my_robot.location, "MyRobot"),
                      other_robots).map]
    ELSE new_noexpand_end(
             stamp_other_robots(set_location(map, my_robot.location, "MyRobot"),
                                other_robots),
             my_robot, other_robots)

\* new_noexpand placing the other robots before my robot
new_noexpand_others_first(map, my_robot, other_robots) ==
    IF stamp_other_robots(map, other_robots).ret.tag # "Ok"
    THEN stamp_other_robots(map, other_robots)
    ELSE IF set_location_ret(stamp_other_robots(map, other_robots).map,
                             my_robot.location, "MyRobot").tag = "Ok"
    THEN new_noexpand_end(
             [ret |-> Ok("unit"),
              map |-> set_location(stamp_other_robots(map, other_robots).map,
                                   my_robot.location, "MyRobot")],
             my_robot, other_robots)
    ELSE placement_failed(
             set_location_ret(stamp_other_robots(map, other_robots).map,
                              my_robot.location, "MyRobot"),
             my_robot.location, stamp_other_robots(map, other_robots).map)

\* new_noexpand keeping MyRobot in a cell that another robot shares
new_noexpand_my_robot_kept(map, my_robot, other_robots) ==
    IF set_location_ret(map, my_robot.location, "MyRobot").tag = "Ok"
    THEN new_noexpand_end(
             [ret |-> stamp_other_robots(map, other_robots).ret,
              map |-> set_location(stamp_other_robots(map, other_robots).map,
                                   my_robot.location, "MyRobot")],
             my_robot, other_robots)
    ELSE placement_failed(set_location_ret(map, my_robot.location, "MyRobot"),
                          my_robot.location, map)

\* [ret, map]: ret is Ok(LocalMap) or Err(<<error, location>>), map is the
\* grid handed over, as the call left it
new_noexpand(map, my_robot, other_robots) ==
    IF set_location_ret(map, my_robot.location, "MyRobot").tag = "Ok"
    THEN new_noexpand_end(
             stamp_other_robots(set_location(map, my_robot.location, "MyRobot"),
                                other_robots),
             my_robot, other_robots)
    ELSE placement_failed(set_location_ret(map, my_robot.location, "MyRobot"),
                          my_robot.location, map)

\* the loop over other_robots of new_noexpand_nooutofmap: a placement out of
\* the map is passed over, any other error returns with my robot's position
RECURSIVE stamp_other_robots_nooutofmap(_, _, _)
stamp_other_robots_nooutofmap(map, other_robots, my_robot) ==
    IF Len(other_robots) = 0 THEN [ret |-> Ok("unit"), map |-> map]
    ELSE IF set_location_ret(map, Head(other_robots).location, "OtherRobot")
               \in {Ok("unit"), Err("OutOfMap")}
    THEN stamp_other_robots_nooutofmap(
             set_location(map, Head(other_robots).location, "OtherRobot"),
             Tail(other_robots), my_robot)
    ELSE placement_failed(
             set_location_ret(map, Head(other_robots).location, "OtherRobot"),
             my_robot.location, map)

\* new_noexpand_nooutofmap refusing a robot out of the map as new_noexpand does
new_noexpand_nooutofmap_strict(map, my_robot, other_robots) ==
    new_noexpand(map, my_robot, other_robots)

\* new_noexpand_nooutofmap leaving my robot off the grid
new_noexpand_nooutofmap_unstamped(map, my_robot, other_robots) ==
    new_noexpand_end(
        stamp_other_robots_nooutofmap(map, other_robots, my_robot),
        my_robot, other_robots)

\* [ret, map] as new_noexpand
new_noexpand_nooutofmap(map, my_robot, other_robots) ==
    IF set_location_ret(map, my_robot.location, "MyRobot")
           \in {Ok("unit"), Err("OutOfMap")}
    THEN new_noexpand_end(
             stamp_other_robots_nooutofmap(
                 set_location(map, my_robot.location, "MyRobot"),
                 other_robots, my_robot),
             my_robot, other_robots)
    ELSE placement_failed(set_location_ret(map, my_robot.location, "MyRobot"),
                          my_robot.location, map)

\* new_expand is todo!(): the call panics whatever it is given
new_expand(map, my_position, other_positions) ==
    [ret |-> Panic, map |-> map]

\* other_positions() giving my robot's position as well
other_positions_with_mine(self) ==
    <<self.my_robot.location>>
        \o [k \in 1 .. Len(self.other_robots) |-> self.other_robots[k].location]

my_position(self) == self.my_robot.location
other_positions(self) ==
    [k \in 1 .. Len(self.other_robots) |-> self.other_robots[k].location]

(***************************************************************************)
(* A LocalMap is constructed from a CellMap and robots                     *)
(***************************************************************************)
\* longest list of other robots
MaxOtherRobots == 2

\* the grid of the tests of local_map.rs: corners (-5, -5, -5) and (5, 5, 5),
\* resolution 1, 10 x 10 cells
test_map ==
    CellMap_new(from_xyz(-20, -20, -20), from_xyz(20, 20, 20), uniform(Unit))

LocalInitMaps == {test_map, make_map}

\* positions of robots: (-4, -4, -4) and (-3.75, -3.5, 0) in one cell of the
\* test grid and below the seed grid, (1, 1, 0) and (1.5, 1.25, 0) in one cell
\* of either grid, (6, 6, 6) past and (-6, -6, -6) below both grids
RobotLocations ==
    {from_xyz(-16, -16, -16), from_xyz(-15, -14, 0), from_xyz(4, 4, 0),
     from_xyz(6, 5, 0), from_xyz(24, 24, 24), from_xyz(-24, -24, -24)}

Robots == {Robot_new(location, "unit") : location \in RobotLocations}

\* the lists of at most MaxOtherRobots robots
RobotLists == UNION {[1 .. n -> Robots] : n \in 0 .. MaxOtherRobots}

InitLocal ==
    /\ rw = None
    /\ iloc = None
    /\ out = None
    /\ nchanges = 0
    /\ cellmap \in LocalInitMaps
    /\ call = NoCall
    /\ ret = None
    /\ polygonmap = None
    /\ localmap = None
    /\ algorithm = None
    /\ invoked = 0
    /\ written = None

\* new_noexpand takes the grid by value: cellmap is the grid as the call left
\* it, owned by the LocalMap when the call returned Ok
NewNoexpand(my_robot, other_robots) ==
    /\ call = NoCall
    /\ call' = [op |-> "new_noexpand", map |-> cellmap, my_robot |-> my_robot,
                other_robots |-> other_robots]
    /\ LET r == new_noexpand(cellmap, my_robot, other_robots)
       IN  /\ ret' = r.ret
           /\ cellmap' = r.map
           /\ localmap' = IF r.ret.tag = "Ok" THEN r.ret.v ELSE None
    /\ UNCHANGED <<coordVars, polygonmap, partitionVars, written>>

NextLocal ==
    \E my_robot \in Robots, other_robots \in RobotLists :
        NewNoexpand(my_robot, other_robots)

SpecLocal == InitLocal /\ [][NextLocal]_vars

\* the positions of the call in placement order: my robot, then the other
\* robots in list order
Placements ==
    <<call.my_robot.location>>
        \o [k \in 1 .. Len(call.other_robots) |-> call.other_robots[k].location]

\* the placements that fall outside the grid handed over
FailingPlacements ==
    {k \in 1 .. Len(Placements) : ~InGrid(call.map, Placements[k])}

\* C18: new_noexpand attempts placements in the order my robot, then other
\* robots in list order, and returns Err((OutOfMap, position)) where position
\* is that of the first robot in this order whose placement fails, even when
\* later robots are also out of bounds.
C18_FirstFailureReported ==
    call.op = "new_noexpand" =>
        IF FailingPlacements # {}
        THEN ret = Err(<<"OutOfMap", Placements[SetMin(FailingPlacements)]>>)
        ELSE ret.tag = "Ok"

\* my robot in the grid, two other robots out of it: the first one is reported
C18_Witness ==
    /\ call.op = "new_noexpand"
    /\ FailingPlacements = {2, 3}
    /\ Placements[2] # Placements[3]
    /\ ret = Err(<<"OutOfMap", call.other_robots[1].location>>)

\* C19: when my robot's position is outside the grid, new_noexpand fails with
\* OutOfMap and that exact position, and no cell has been stamped OtherRobot
\* for any of the other robots, including those that are in bounds.
C19_MyRobotFailsFirst ==
    (call.op = "new_noexpand" /\ ~InGrid(call.map, call.my_robot.location)) =>
        /\ ret = Err(<<"OutOfMap", call.my_robot.location>>)
        /\ cellmap = call.map
        /\ localmap = None

\* my robot at (6, 6, 6), out of the 10 x 10 grid, two other robots in it
C19_Witness ==
    /\ call.op = "new_noexpand"
    /\ call.my_robot.location = from_xyz(24, 24, 24)
    /\ Len(call.other_robots) = 2
    /\ \A k \in 1 .. 2 : InGrid(call.map, call.other_robots[k].location)
    /\ ret.tag = "Err"
    /\ \A idx \in Indices(height(cellmap), width(cellmap)) :
          cellmap.cells.elems[idx] = "Unexplored"

\* the cell of the grid handed over that holds position p
CellOf(p) == <<Floor(ScaledY(call.map, p)), Floor(ScaledX(call.map, p))>>

\* C20: when new_noexpand succeeds and several robots fall into the same grid
\* cell, that cell carries the label of the last robot stamped in placement
\* order (my robot first, then others in list order): an other robot sharing
\* my robot's cell leaves it OtherRobot, and no collision is reported.  Cells
\* without a robot keep their label.
C20_LastStampWins ==
    (call.op = "new_noexpand" /\ FailingPlacements = {}) =>
        /\ ret.tag = "Ok"
        /\ localmap = ret.v
        /\ localmap.map = cellmap
        /\ \A idx \in Indices(height(call.map), width(call.map)) :
              LET here == {k \in 1 .. Len(Placements) : CellOf(Placements[k]) = idx}
              IN  localmap.map.cells.elems[idx] =
                     IF here = {} THEN call.map.cells.elems[idx]
                     ELSE IF SetMax(here) = 1 THEN "MyRobot"
                     ELSE "OtherRobot"

\* another robot at a different position of my robot's cell
C20_Witness ==
    /\ call.op = "new_noexpand"
    /\ ret.tag = "Ok"
    /\ Len(call.other_robots) = 1
    /\ call.other_robots[1].location # call.my_robot.location
    /\ CellOf(call.other_robots[1].location) = CellOf(call.my_robot.location)
    /\ localmap.map.cells.elems[CellOf(call.my_robot.location)] = "OtherRobot"

(***************************************************************************)
(* The constructors of LocalMap side by side, on grids at the origin       *)
(***************************************************************************)
\* the grid of make_local_map: corners (0, 0, 0) and (10, 10, 10), resolution 1
origin_map ==
    CellMap_new(from_xyz(0, 0, 0), from_xyz(40, 40, 40), uniform(Unit))

PlacementMaps == {origin_map, make_map}

\* (0, 0, 0), (1, 1, 0) and (2, 2, 0), lower corners of cells of both grids at
\* the height of their offset, as the tests of my_position() and
\* other_positions() have; (6, 6, 6), in the 10 x 10 grid and past the seed
\* grid; (-4, -4, -4), below both
PlacementLocations ==
    {from_xyz(0, 0, 0), from_xyz(4, 4, 0), from_xyz(8, 8, 0),
     from_xyz(24, 24, 24), from_xyz(-16, -16, -16)}

PlacementRobots == {Robot_new(location, "unit") : location \in PlacementLocations}

PlacementLists == UNION {[1 .. n -> PlacementRobots] : n \in 0 .. MaxOtherRobots}

InitPlacement ==
    /\ rw = None
    /\ iloc = None
    /\ out = None
    /\ nchanges = 0
    /\ cellmap \in PlacementMaps
    /\ call = NoCall
    /\ ret = None
    /\ polygonmap = None
    /\ localmap = None
    /\ algorithm = None
    /\ invoked = 0
    /\ written = None

NewNoexpandNooutofmap(my_robot, other_robots) ==
    /\ call = NoCall
    /\ call' = [op |-> "new_noexpand_nooutofmap", map |-> cellmap,
                my_robot |-> my_robot, other_robots |-> other_robots]
    /\ LET r == new_noexpand_nooutofmap(cellmap, my_robot, other_robots)
       IN  /\ ret' = r.ret
           /\ cellmap' = r.map
           /\ localmap' = IF r.ret.tag = "Ok" THEN r.ret.v ELSE None
    /\ UNCHANGED <<coordVars, polygonmap, partitionVars, written>>

\* new_expand takes positions, not robots
NewExpand(position, positions) ==
    /\ call = NoCall
    /\ call' = [op |-> "new_expand", map |-> cellmap,
                my_position |-> position, other_positions |-> positions]
    /\ LET r == new_expand(cellmap, position, positions)
       IN  /\ ret' = r.ret
           /\ cellmap' = r.map
           /\ localmap' = IF r.ret.tag = "Ok" THEN r.ret.v ELSE None
    /\ UNCHANGED <<coordVars, polygonmap, partitionVars, written>>

NextPlacement ==
    \/ \E my_robot \in PlacementRobots, other_robots \in PlacementLists :
           NewNoexpand(my_robot, other_robots)
    \/ \E my_robot \in PlacementRobots, other_robots \in PlacementLists :
           NewNoexpandNooutofmap(my_robot, other_robots)
    \/ \E my_robot \in PlacementRobots, other_robots \in PlacementLists :
           NewExpand(my_robot.location,
                     [k \in 1 .. Len(other_robots) |-> other_robots[k].location])

SpecPlacement == InitPlacement /\ [][NextPlacement]_vars

\* the placements of the call that fall inside the grid handed over and into
\* cell idx of it
PlacedIn(idx) ==
    {k \in 1 .. Len(Placements) :
        InGrid(call.map, Placements[k]) /\ CellOf(Placements[k]) = idx}

\* C21: new_noexpand_nooutofmap never returns an OutOfMap error: every robot
\* inside the grid is stamped on it (the last one stamped in a cell gives the
\* label), a robot outside the grid marks no cell, and every position given,
\* inside or outside, is recorded in the LocalMap returned.
C21_OutOfMapSkipped ==
    call.op = "new_noexpand_nooutofmap" =>
        /\ ret.tag = "Ok"
        /\ localmap = ret.v
        /\ localmap.map = cellmap
        /\ localmap.my_robot = call.my_robot
        /\ localmap.other_robots = call.other_robots
        /\ cellmap.offset = call.map.offset
        /\ cellmap.resolution = call.map.resolution
        /\ \A idx \in Indices(height(call.map), width(call.map)) :
              cellmap.cells.elems[idx] =
                 IF PlacedIn(idx) = {} THEN call.map.cells.elems[idx]
                 ELSE IF SetMax(PlacedIn(idx)) = 1 THEN "MyRobot"
                 ELSE "OtherRobot"

\* my robot and the second other robot out of the seed grid, the first other
\* robot in it: one cell is stamped and three positions are recorded
C21_Witness ==
    /\ call.op = "new_noexpand_nooutofmap"
    /\ FailingPlacements = {1, 3}
    /\ ret.tag = "Ok"
    /\ Len(localmap.other_robots) = 2
    /\ localmap.my_robot.location = from_xyz(24, 24, 24)
    /\ localmap.other_robots[2].location = from_xyz(-16, -16, -16)
    /\ cellmap.cells.elems[CellOf(Placements[2])] = "OtherRobot"
    /\ Cardinality({idx \in Indices(height(cellmap), width(cellmap)) :
                       cellmap.cells.elems[idx] # call.map.cells.elems[idx]}) = 1

\* the grid handed over holds no robot label
NoRobotLabels ==
    \A idx \in Indices(height(call.map), width(call.map)) :
        call.map.cells.elems[idx] \notin {"MyRobot", "OtherRobot"}

\* every robot of the call stands on the lower corner of a cell of the grid
\* handed over, no two of them in one cell
AtDistinctLowerCorners ==
    /\ FailingPlacements = {}
    /\ \A k \in 1 .. Len(Placements) :
          [x |-> Placements[k].x, y |-> Placements[k].y]
              = LowerCorner(call.map, CellOf(Placements[k]))
    /\ \A j, k \in 1 .. Len(Placements) :
          j # k => CellOf(Placements[j]) # CellOf(Placements[k])

\* the locations of the cells get_map_state returns
StateLocations(self, state) ==
    [k \in 1 .. Len(get_map_state(self, state)) |->
        get_map_state(self, state)[k].location]

\* C22 as stated: after a successful new_noexpand on a grid without robot
\* labels, the robots on lower corners of pairwise distinct cells,
\* get_map_state(MyRobot) returns one cell whose location equals my_position()
\* and get_map_state(OtherRobot) returns as many cells as there are other
\* robots, their locations equal to other_positions().
C22_PositionsOnGrid ==
    (call.op = "new_noexpand" /\ NoRobotLabels /\ AtDistinctLowerCorners) =>
        /\ ret.tag = "Ok"
        /\ StateLocations(localmap.map, "MyRobot") = <<my_position(localmap)>>
        /\ StateLocations(localmap.map, "OtherRobot") = other_positions(localmap)

\* position p as a cell of the grid reports it: x and y of p, z of the offset
OnGrid(map, p) == [x |-> p.x, y |-> p.y, z |-> map.offset.z]

\* C22 amended: under the same conditions get_map_state(MyRobot) returns one
\* cell, at x and y of my_position() and z of the grid's offset, and
\* get_map_state(OtherRobot) returns as many cells as there are other robots,
\* in row-major order of the grid, each at x and y of the other robot in
\* that cell and z of the grid's offset: the locations equal other_positions()
\* when the robots are listed in row-major order at the height of the offset.
C22_PositionsOnGridRowMajor ==
    (call.op = "new_noexpand" /\ NoRobotLabels /\ AtDistinctLowerCorners) =>
        /\ ret.tag = "Ok"
        /\ StateLocations(localmap.map, "MyRobot")
              = <<OnGrid(localmap.map, my_position(localmap))>>
        /\ Len(StateLocations(localmap.map, "OtherRobot"))
              = Len(other_positions(localmap))
        /\ \A k \in 1 .. Len(other_positions(localmap)) :
              \E j \in 1 .. Len(other_positions(localmap)) :
                 /\ CellOf(other_positions(localmap)[j])
                       = NthMatching(localmap.map, {"OtherRobot"}, k)
                 /\ StateLocations(localmap.map, "OtherRobot")[k]
                       = OnGrid(localmap.map, other_positions(localmap)[j])

\* my robot at (0, 0, 0), the other robots listed (2, 2, 0) then (1, 1, 0):
\* the grid reports (1, 1, 0) first
C22_Witness ==
    /\ call.op = "new_noexpand"
    /\ NoRobotLabels
    /\ AtDistinctLowerCorners
    /\ ret.tag = "Ok"
    /\ my_position(localmap) = from_xyz(0, 0, 0)
    /\ other_positions(localmap) = <<from_xyz(8, 8, 0), from_xyz(4, 4, 0)>>
    /\ StateLocations(localmap.map, "OtherRobot")
          = <<from_xyz(4, 4, 0), from_xyz(8, 8, 0)>>

\* the x and the y coordinates new_expand has to cover: the corners of the
\* grid handed over and every position
ExpandXs ==
    {call.map.offset.x,
     fadd(call.map.offset.x,
          fdiv(to_f64(width(call.map)), call.map.resolution.x)),
     call.my_position.x}
        \cup {call.other_positions[k].x : k \in 1 .. Len(call.other_positions)}

ExpandYs ==
    {call.map.offset.y,
     fadd(call.map.offset.y,
          fdiv(to_f64(height(call.map)), call.map.resolution.y)),
     call.my_position.y}
        \cup {call.other_positions[k].y : k \in 1 .. Len(call.other_positions)}

\* C23: new_expand returns a LocalMap whose grid covers the old bounding box
\* and every robot position: at resolution 1 its width is floor(max x) -
\* floor(min x) and its height floor(max y) - floor(min y), taken over the
\* corners of the old grid and all positions, so that with every robot in
\* bounds the dimensions are unchanged.
C23_ExpandCovers ==
    (call.op = "new_expand" /\ call.map.resolution = uniform(Unit)) =>
        /\ ret.tag = "Ok"
        /\ width(ret.v.map) = Floor(SetMax(ExpandXs)) - Floor(SetMin(ExpandXs))
        /\ height(ret.v.map) = Floor(SetMax(ExpandYs)) - Floor(SetMin(ExpandYs))

\* C30: when my robot and all other robots are inside the grid, new_noexpand
\* and new_noexpand_nooutofmap both succeed, with equal grids and equal
\* recorded positions, and in both every cell that contains no robot keeps the
\* label it had in the grid handed over.
C30_SameWhenInBounds ==
    (call.op \in {"new_noexpand", "new_noexpand_nooutofmap"}
        /\ FailingPlacements = {}) =>
        /\ ret.tag = "Ok"
        /\ ret = new_noexpand(call.map, call.my_robot, call.other_robots).ret
        /\ ret = new_noexpand_nooutofmap(call.map, call.my_robot,
                                         call.other_robots).ret
        /\ my_position(ret.v) = call.my_robot.location
        /\ other_positions(ret.v)
              = [k \in 1 .. Len(call.other_robots) |->
                    call.other_robots[k].location]
        /\ cellmap = ret.v.map
        /\ \A idx \in Indices(height(call.map), width(call.map)) :
              PlacedIn(idx) = {} =>
                 cellmap.cells.elems[idx] = call.map.cells.elems[idx]

\* new_noexpand_nooutofmap with three robots in three cells of the seed grid
C30_Witness ==
    /\ call.op = "new_noexpand_nooutofmap"
    /\ FailingPlacements = {}
    /\ Len(call.other_robots) = 2
    /\ height(call.map) = 5
    /\ Cardinality({CellOf(Placements[k]) : k \in 1 .. 3}) = 3
    /\ ret.tag = "Ok"
    /\ ret.v.map = new_noexpand(call.map, call.my_robot, call.other_robots).map
    /\ ret.v.map # call.map

(***************************************************************************)
(* lib.rs: trait Partition.  partition() is the provided method; the map   *)
(* that implements the trait supplies get_partition_algorithm() and        *)
(* set_partition_algorithm().  A map is [map, algorithm]: the LocalMap and *)
(* what get_partition_algorithm() returns for it, Err(e) or Ok of the      *)
(* Option that holds the algorithm.                                        *)
(***************************************************************************)
\* the algorithms a caller supplies, fn(T, Option<F>) -> T: the dummy of the
\* tests, which returns the map as it is, and one that assigns the
\* unexplored cells, as frontier when it is given no factors
Algorithms == {"identity", "assign"}

apply_algorithm(alg, self, factors) ==
    IF alg = "identity" THEN self
    ELSE [self EXCEPT !.map.map.cells.elems =
             [idx \in DOMAIN @ |->
                 IF @[idx] # "Unexplored" THEN @[idx]
                 ELSE IF factors = None THEN "Frontier" ELSE "Assigned"]]

get_partition_algorithm(self) == self.algorithm

set_partition_algorithm(self, alg) == [self EXCEPT !.algorithm = Ok(Some(alg))]

\* [ret, invoked]: what partition returns and how often it invoked the
\* algorithm.  take() leaves None in the map the algorithm is given.
partition(self, factors) ==
    IF get_partition_algorithm(self).tag = "Err"
    THEN [ret |-> get_partition_algorithm(self), invoked |-> 0]
    ELSE IF get_partition_algorithm(self).v = None
    THEN [ret |-> Panic, invoked |-> 0]
    ELSE [ret |-> Ok(set_partition_algorithm(
                         apply_algorithm(get_partition_algorithm(self).v.v,
                                         [self EXCEPT !.algorithm = Ok(None)],
                                         factors),
                         get_partition_algorithm(self).v.v)),
          invoked |-> 1]

\* most calls of partition in a behaviour
MaxPartitions == 2

\* the partitioning factors of a request
Factors == {None, Some("speed")}

\* the maps of the tests, make_random_local_map and make_local_map with my
\* robot at (0, 0, 0) or (1, 1, 0) and no other robot
PartitionMaps ==
    {new_noexpand(map, Robot_new(location, "unit"), <<>>).ret.v :
        map \in PlacementMaps, location \in {from_xyz(0, 0, 0), from_xyz(4, 4, 0)}}

\* what get_partition_algorithm() gives for the map is the implementer's
\* choice
InitPartition ==
    /\ rw = None
    /\ iloc = None
    /\ out = None
    /\ nchanges = 0
    /\ localmap \in PartitionMaps
    /\ cellmap = localmap.map
    /\ call = NoCall
    /\ ret = None
    /\ polygonmap = None
    /\ algorithm \in {Err("NoPartitioningAlgorithm"), Ok(None)}
                       \cup {Ok(Some(alg)) : alg \in Algorithms}
    /\ invoked = 0
    /\ written = None

SetPartitionAlgorithm(alg) ==
    /\ localmap # None
    /\ call' = [op |-> "set_partition_algorithm", algorithm |-> alg]
    /\ ret' = Ok("unit")
    /\ algorithm' = set_partition_algorithm(
                        [map |-> localmap, algorithm |-> algorithm], alg).algorithm
    /\ UNCHANGED <<coordVars, cellmap, polygonmap, localmap, invoked, written>>

\* partition takes the map by value: it is gone unless Ok returns one
Partition(factors) ==
    /\ localmap # None
    /\ invoked < MaxPartitions
    /\ call' = [op |-> "partition", self |-> [map |-> localmap,
                                              algorithm |-> algorithm],
                factors |-> factors, invoked |-> invoked]
    /\ LET r == partition([map |-> localmap, algorithm |-> algorithm], factors)
       IN  /\ ret' = r.ret
           /\ invoked' = invoked + r.invoked
           /\ localmap' = IF r.ret.tag = "Ok" THEN r.ret.v.map ELSE None
           /\ algorithm' = IF r.ret.tag = "Ok" THEN r.ret.v.algorithm ELSE None
           /\ cellmap' = IF r.ret.tag = "Ok" THEN r.ret.v.map.map ELSE None
    /\ UNCHANGED <<coordVars, polygonmap, written>>

NextPartition ==
    \/ \E alg \in Algorithms : SetPartitionAlgorithm(alg)
    \/ \E factors \in Factors : Partition(factors)

SpecPartition == InitPartition /\ [][NextPartition]_vars

\* C24: partition invokes the stored partitioning algorithm exactly once on
\* the map, and the map it returns holds the same algorithm again, so that
\* partition can be called repeatedly; when no algorithm can be retrieved the
\* result is an Err and the algorithm is not invoked.
C24_PartitionInvokesOnce ==
    call.op = "partition" =>
        IF call.self.algorithm.tag = "Ok" /\ call.self.algorithm.v # None
        THEN /\ ret.tag = "Ok"
             /\ invoked = call.invoked + 1
             /\ ret.v = [map |-> localmap, algorithm |-> algorithm]
             /\ algorithm = call.self.algorithm
             /\ localmap = apply_algorithm(call.self.algorithm.v.v, call.self,
                                           call.factors).map
        ELSE /\ ret.tag = "Err"
             /\ invoked = call.invoked

(***************************************************************************)
(* coords.rs: p.into_internal(offset, resolution)                          *)
(***************************************************************************)
InitScale ==
    /\ rw \in Points
    /\ iloc = None
    /\ out = None
    /\ nchanges = 0
    /\ cellmap = None
    /\ call = NoCall
    /\ ret = None
    /\ polygonmap = None
    /\ localmap = None
    /\ algorithm = None
    /\ invoked = 0
    /\ written = None

IntoInternalRes(offset, resolution) ==
    /\ call = NoCall
    /\ call' = [op |-> "into_internal", self |-> rw, offset |-> offset,
                resolution |-> resolution]
    /\ ret' = into_internal_res(rw, offset, resolution)
    /\ iloc' = IF into_internal_res(rw, offset, resolution).tag = "Ok"
               THEN into_internal_res(rw, offset, resolution).v
               ELSE None
    /\ UNCHANGED <<rw, out, nchanges, cellmap, ownerVars, partitionVars, written>>

NextScale ==
    \E offset \in Offsets, resolution \in Resolutions :
        IntoInternalRes(offset, resolution)

SpecScale == InitScale /\ [][NextScale]_vars

\* d scaled by resolution r is the float v: v is the product rounded, and the
\* product itself where that is a float
ScaledBy(d, r, v) ==
    /\ v = fmul(d, r)
    /\ ((d * r) % Unit = 0 /\ Representable((d * r) \div Unit))
          => v * Unit = d * r

small_map ==
    CellMap_new(from_xyz(-4, -4, 0), from_xyz(4, 4, 0), uniform(Unit))

\* two locations in cell (0, 0), one in cell (1, 1), one past the grid and
\* one below it
HistoryLocations ==
    {from_xyz(-4, -4, 0), from_xyz(-2, -3, 0), from_xyz(0, 0, 0),
     from_xyz(4, 0, 0), from_xyz(-5, 0, 0)}

InitHistory ==
    /\ rw = None
    /\ iloc = None
    /\ out = None
    /\ nchanges = 0
    /\ cellmap = small_map
    /\ call = NoCall
    /\ ret = None
    /\ polygonmap = None
    /\ localmap = None
    /\ algorithm = None
    /\ invoked = 0
    /\ written = cellmap.cells.elems

NextHistory ==
    \/ \E coord \in HistoryLocations : GetLocation(coord)
    \/ \E coord \in HistoryLocations, value \in MapState :
           SetLocation(coord, value)

SpecHistory == InitHistory /\ [][NextHistory]_vars

\* C26: after any sequence of set_location calls on a grid, get_location(p)
\* for an in-bounds p returns the value of the most recent successful
\* set_location whose location maps to the same cell index as p, or the
\* initial label of the cell if there was none; any label may replace any
\* other.
C26_LastWriteWins ==
    /\ \A p \in HistoryLocations :
          get_location(cellmap, p).tag = "Ok" =>
             get_location(cellmap, p)
                = Ok(written[location_to_map_index(cellmap, p).v])
    /\ (call.op = "get_location" /\ ret.tag = "Ok") =>
          ret.v = written[location_to_map_index(cellmap, call.coord).v]
    /\ \A p \in HistoryLocations, value \in MapState :
          set_location_ret(cellmap, p, value).tag = "Ok" =>
             get_location(set_location(cellmap, p, value), p) = Ok(value)

\* cell (0, 0) written at (-1, -1, 0), with Frontier last, and read at
\* (-0.5, -0.75, 0); cell (1, 1) written, the other cells as they began
C26_Witness ==
    /\ call = [op |-> "get_location", coord |-> from_xyz(-2, -3, 0)]
    /\ ret = Ok("Frontier")
    /\ written[<<0, 0>>] = "Frontier"
    /\ written[<<1, 1>>] = "OutOfMap"
    /\ written[<<0, 1>>] = "Unexplored"
    /\ cellmap.cells.elems[<<1, 0>>] = small_map.cells.elems[<<1, 0>>]
    /\ cellmap.cells.elems = written

\* C27: for every Cell returned by get_map_region for grid cell (row, col),
\* location_to_map_index(cell.location()) returns Ok([row, col]) and
\* get_location(cell.location()) returns the label of that cell: the round
\* trip from index to real-world location to index is the identity for every
\* cell of the grid.
C27_CellLocationFindsCell ==
    call.op = "get_map_region" =>
        \A k \in 1 .. Len(ret.v) :
            /\ location_to_map_index(cellmap, ret.v[k].location)
                  = Ok(NthMatching(cellmap, call.filter, k))
            /\ get_location(cellmap, ret.v[k].location) = Ok(ret.v[k].value)

\* the lengths of get_map_state(label) added up over a set of labels
RECURSIVE StateLengths(_, _)
StateLengths(map, labels) ==
    IF labels = {} THEN 0
    ELSE LET label == CHOOSE l \in labels : TRUE
         IN  Len(get_map_state(map, label)) + StateLengths(map, labels \ {label})

\* the cells of a result of get_map_state carry the label asked for and are,
\* in this order, the cells of the grid that hold it
CellsOfLabel(map, label, cells) ==
    /\ Len(cells) = Cardinality(Matching(map, {label}))
    /\ \A k \in 1 .. Len(cells) :
          /\ cells[k].value = label
          /\ [x |-> cells[k].location.x, y |-> cells[k].location.y]
                = LowerCorner(map, NthMatching(map, {label}, k))

\* C28: for every grid, the results of get_map_state over the seven labels
\* are pairwise disjoint (a cell carries the label it was asked for, and one
\* label only) and together contain every cell exactly once: the lengths sum
\* to width * height.
C28_StatesPartitionGrid ==
    /\ StateLengths(cellmap, MapState) = width(cellmap) * height(cellmap)
    /\ \A label \in MapState :
          CellsOfLabel(cellmap, label, get_map_state(cellmap, label))
    /\ call.op = "get_map_state" => CellsOfLabel(cellmap, call.state, ret.v)

\* the seed grid after set_location turned its first cell, OutOfMap, into
\* Explored: one OutOfMap cell is left, of 15 cells
C28_Witness ==
    /\ call.op = "get_map_state"
    /\ call.state = "OutOfMap"
    /\ height(cellmap) = 5
    /\ cellmap.cells.elems[<<0, 0>>] = "Explored"
    /\ Len(ret.v) = 1
    /\ StateLengths(cellmap, MapState) = 15

\* the grid of to_cell_map had the main raster no cell inside the polygon
AllOutOfMap(map) ==
    [map EXCEPT !.cells.elems = [idx \in DOMAIN @ |-> "OutOfMap"]]

\* C29: in to_cell_map, stamping an explored sub-polygon does not look at the
\* current label of the cell: a main-grid cell that lies inside the main
\* bounding box but outside the main polygon (OutOfMap) becomes Explored when
\* an inside cell of an explored sub-polygon lands on it, so that the result
\* can contain Explored cells outside the region of interest.
C29_ExploredOverOutOfMap ==
    (call.op = "to_cell_map" /\ call.self.explored # None /\ ret.tag = "Ok") =>
        LET main == rasterize_polygon(call.self.vertices, call.resolution).v
            blank == set_explored(AllOutOfMap(cellmap), call.self.explored.v,
                                  call.resolution)
        IN  \A idx \in Indices(height(cellmap), width(cellmap)) :
               /\ (cellmap.cells.elems[idx] = "Explored")
                     <=> (blank.cells.elems[idx] = "Explored")
               /\ (~main.cells.elems[idx]
                      /\ idx \in ExploredHits(cellmap, call.self.explored.v,
                                               call.resolution))
                     => cellmap.cells.elems[idx] = "Explored"

\* the positive triangle with the explored rectangle (6, 2) .. (10, 5): cell
\* (row 3, col 7) of the 8 x 4 grid lies right of the triangle and is Explored
C29_Witness ==
    /\ call.op = "to_cell_map"
    /\ call.self.vertices = triangle_positive
    /\ call.self.explored = Some(<<rectangle_across>>)
    /\ call.resolution = uniform(Unit)
    /\ ret.tag = "Ok"
    /\ ~rasterize_polygon(triangle_positive, uniform(Unit)).v.cells.elems[<<3, 7>>]
    /\ to_cell_map([call.self EXCEPT !.explored = None], call.resolution)
          .cells.elems[<<3, 7>>] = "OutOfMap"
    /\ cellmap.cells.elems[<<3, 7>>] = "Explored"

====
